---- MODULE Spec2Model ----
(***************************************************************************)
(* The ch-rzl chart player: tempo mapping (timing.rs), keyframe            *)
(* interpolation (timing.rs, easing.rs), the cumulative floor position     *)
(* cache of the speed keyframes (timing.rs, game.rs), colors (chart.rs,    *)
(* game.rs) and the game state over the frames (game.rs, rendering.rs,     *)
(* main.rs).                                                               *)
(*                                                                         *)
(* Numbers.  The program computes in f64 (f32 inside the easing library).  *)
(* The model computes in exact rationals: a number is a pair <<n, d>> in   *)
(* lowest terms with d > 0.  Rounding error of the floating point          *)
(* operations is not modelled.                                             *)
(***************************************************************************)
EXTENDS Integers, Sequences, FiniteSets, TLC

VARIABLES
    base_bpm,          \* Chart.bpm
    bpm_shifts,        \* Chart.bpm_shifts
    events,            \* a KeyPoint list handed to find_value
    speed_key_points,  \* CanvasMove.speed_key_points, with the fp cache
    op,                \* the operation that ran last
    arg,               \* its query argument (seconds, tick or timer)
    ret,               \* the value it returned
    curve_id,          \* the curve id handed to apply_ease
    line_color,        \* Line.line_color / Line.judge_ring_color
    game_state,        \* the GameState resource
    frames,            \* history: what the first frame at each time computed
    note_states,       \* the NoteStates resource
    hit_count          \* the HitCount resource

vars == <<base_bpm, bpm_shifts, events, speed_key_points, op, arg, ret,
          curve_id, line_color, game_state, frames, note_states, hit_count>>

\* The state outside the tempo map, the keyframe lists and the query.
display == <<curve_id, line_color, game_state, frames, note_states, hit_count>>

GameIdle ==
    game_state = <<>> /\ frames = {} /\ note_states = <<>> /\ hit_count = 0

DisplayIdle == curve_id = 0 /\ line_color = <<>> /\ GameIdle

(***************************************************************************)
(* Rational arithmetic                                                     *)
(***************************************************************************)
Abs(x) == IF x < 0 THEN -x ELSE x

RECURSIVE GCD(_, _)
GCD(a, b) == IF b = 0 THEN a ELSE GCD(b, a % b)

Norm(n, d) ==
    LET g == GCD(Abs(n), Abs(d))
        s == IF d < 0 THEN -1 ELSE 1
    IN  <<(s * n) \div g, (s * d) \div g>>

R(n) == <<n, 1>>
Frac(n, d) == Norm(n, d)

RAdd(a, b) == Norm(a[1] * b[2] + b[1] * a[2], a[2] * b[2])
RSub(a, b) == Norm(a[1] * b[2] - b[1] * a[2], a[2] * b[2])
RMul(a, b) == Norm(a[1] * b[1], a[2] * b[2])
RDiv(a, b) == Norm(a[1] * b[2], a[2] * b[1])
RNeg(a) == <<-a[1], a[2]>>
RAbs(a) == <<Abs(a[1]), a[2]>>
RLe(a, b) == a[1] * b[2] <= b[1] * a[2]
RLt(a, b) == a[1] * b[2] < b[1] * a[2]
RGe(a, b) == RLe(b, a)
RGt(a, b) == RLt(b, a)

Zero == R(0)
One == R(1)
Sixty == R(60)

(***************************************************************************)
(* timing.rs: seconds_to_tick                                              *)
(***************************************************************************)
\* for i in 1..bpm_shifts.len(): the first shift whose floor_position is at
\* or after `seconds` ends the scan; i is the 1-based index of `curr`.
RECURSIVE seconds_to_tick_scan(_, _, _, _)
seconds_to_tick_scan(i, seconds, shifts, bpm) ==
    IF i > Len(shifts)
    THEN LET last == shifts[Len(shifts)]
             extra_seconds == RSub(seconds, last.floor_position)
             extra_ticks == RDiv(extra_seconds, RDiv(Sixty, RMul(bpm, last.value)))
         IN  RAdd(last.time, extra_ticks)
    ELSE LET curr == shifts[i]
             prev == shifts[i - 1]
         IN  IF RLe(seconds, curr.floor_position)
             THEN LET ratio == RDiv(RSub(seconds, prev.floor_position),
                                    RSub(curr.floor_position, prev.floor_position))
                  IN  RAdd(prev.time, RMul(ratio, RSub(curr.time, prev.time)))
             ELSE seconds_to_tick_scan(i + 1, seconds, shifts, bpm)

\* The same conversion with the first shift's multiplier left out of the rate
\* used at or before the first shift.
seconds_to_tick_base_rate(seconds, shifts, bpm) ==
    IF shifts = <<>>
    THEN RDiv(seconds, RDiv(Sixty, bpm))
    ELSE IF RLe(seconds, shifts[1].floor_position)
         THEN RDiv(seconds, RDiv(Sixty, bpm))
         ELSE seconds_to_tick_scan(2, seconds, shifts, bpm)

\* The same conversion with the first shift's tick added at or before the
\* first shift, as the tail beyond the last shift adds the last shift's tick.
seconds_to_tick_anchor_first(seconds, shifts, bpm) ==
    IF shifts = <<>>
    THEN RDiv(seconds, RDiv(Sixty, bpm))
    ELSE IF RLe(seconds, shifts[1].floor_position)
         THEN RAdd(shifts[1].time,
                   RDiv(seconds, RDiv(Sixty, RMul(bpm, shifts[1].value))))
         ELSE seconds_to_tick_scan(2, seconds, shifts, bpm)

seconds_to_tick(seconds, shifts, bpm) ==
    IF shifts = <<>>
    THEN RDiv(seconds, RDiv(Sixty, bpm))
    ELSE IF RLe(seconds, shifts[1].floor_position)
         THEN RDiv(seconds, RDiv(Sixty, RMul(bpm, shifts[1].value)))
         ELSE seconds_to_tick_scan(2, seconds, shifts, bpm)

(***************************************************************************)
(* timing.rs: tick_to_seconds                                              *)
(***************************************************************************)
RECURSIVE tick_to_seconds_scan(_, _, _, _)
tick_to_seconds_scan(i, tick, shifts, bpm) ==
    IF i > Len(shifts)
    THEN LET last == shifts[Len(shifts)]
             extra_ticks == RSub(tick, last.time)
             extra_seconds == RMul(extra_ticks, RDiv(Sixty, RMul(bpm, last.value)))
         IN  RAdd(last.floor_position, extra_seconds)
    ELSE LET curr == shifts[i]
         IN  IF RLe(tick, curr.time)
             THEN LET prev == shifts[i - 1]
                      ratio == RDiv(RSub(tick, prev.time), RSub(curr.time, prev.time))
                      sec_start == prev.floor_position
                      sec_end == curr.floor_position
                  IN  RAdd(sec_start, RMul(ratio, RSub(sec_end, sec_start)))
             ELSE tick_to_seconds_scan(i + 1, tick, shifts, bpm)

\* The same conversion with the first shift's multiplier left out of the rate
\* used at or before the first shift.
tick_to_seconds_base_rate(tick, shifts, bpm) ==
    IF shifts = <<>>
    THEN RMul(tick, RDiv(Sixty, bpm))
    ELSE IF RLe(tick, shifts[1].time)
         THEN RMul(tick, RDiv(Sixty, bpm))
         ELSE tick_to_seconds_scan(2, tick, shifts, bpm)

tick_to_seconds(tick, shifts, bpm) ==
    IF shifts = <<>>
    THEN RMul(tick, RDiv(Sixty, bpm))
    ELSE IF RLe(tick, shifts[1].time)
         THEN RMul(tick, RDiv(Sixty, RMul(bpm, shifts[1].value)))
         ELSE tick_to_seconds_scan(2, tick, shifts, bpm)

(***************************************************************************)
(* easing.rs                                                               *)
(*                                                                         *)
(* The polynomial curves are computed exactly.  The square root and the    *)
(* quarter-period sine, which are irrational at most rational arguments,   *)
(* are computed to a fixed precision: RSqrt is exact on squares of         *)
(* rationals and otherwise truncated to 1/RootScale; SinQuarter is         *)
(* Bhaskara's rational approximation of sin(x * PI / 2) on [0, 1] (exact   *)
(* at 0, 1/3 and 1, absolute error below 0.002).                           *)
(***************************************************************************)
RootScale == 1000

RECURSIVE RPow(_, _)
RPow(x, n) == IF n = 0 THEN One ELSE RMul(x, RPow(x, n - 1))

\* Largest r in lo..hi with r * r <= n.
RECURSIVE ISqrtIn(_, _, _)
ISqrtIn(lo, hi, n) ==
    IF lo >= hi
    THEN lo
    ELSE LET mid == (lo + hi + 1) \div 2
         IN  IF mid * mid <= n THEN ISqrtIn(mid, hi, n) ELSE ISqrtIn(lo, mid - 1, n)

ISqrt(n) == ISqrtIn(0, IF n < RootScale * 2 THEN n ELSE RootScale * 2, n)

RSqrt(x) ==
    LET sn == ISqrt(x[1])
        sd == ISqrt(x[2])
    IN  IF sn * sn = x[1] /\ sd * sd = x[2]
        THEN Norm(sn, sd)
        ELSE Norm(ISqrt((x[1] * RootScale * RootScale) \div x[2]), RootScale)

SinQuarter(x) ==
    LET u == RMul(x, RSub(R(2), x))
    IN  RDiv(RMul(R(4), u), RSub(R(5), u))

CosQuarter(x) == SinQuarter(RSub(One, x))

Half == Frac(1, 2)

linear(x) == x
ease_in_quad(x) == RMul(x, x)
ease_out_quad(x) == RSub(One, RMul(RSub(One, x), RSub(One, x)))
ease_in_out_quad(x) ==
    IF RLt(x, Half)
    THEN RMul(R(2), RMul(x, x))
    ELSE RSub(One, RDiv(RPow(RAdd(RMul(R(-2), x), R(2)), 2), R(2)))
ease_in_cubic(x) == RMul(x, RMul(x, x))
ease_out_cubic(x) == RSub(One, RPow(RSub(One, x), 3))
ease_in_out_cubic(x) ==
    IF RLt(x, Half)
    THEN RMul(R(4), RMul(x, RMul(x, x)))
    ELSE RSub(One, RDiv(RPow(RAdd(RMul(R(-2), x), R(2)), 3), R(2)))
ease_in_quart(x) == RMul(x, RMul(x, RMul(x, x)))
ease_out_quart(x) == RSub(One, RPow(RSub(One, x), 4))
ease_in_out_quart(x) ==
    IF RLt(x, Half)
    THEN RMul(R(8), RMul(x, RMul(x, RMul(x, x))))
    ELSE RSub(One, RDiv(RPow(RAdd(RMul(R(-2), x), R(2)), 4), R(2)))
ease_in_quint(x) == RMul(x, RMul(x, RMul(x, RMul(x, x))))
ease_out_quint(x) == RSub(One, RPow(RSub(One, x), 5))
ease_in_out_quint(x) ==
    IF RLt(x, Half)
    THEN RMul(R(16), RMul(x, RMul(x, RMul(x, RMul(x, x)))))
    ELSE RSub(One, RDiv(RPow(RAdd(RMul(R(-2), x), R(2)), 5), R(2)))
ease_zero(x) == Zero
ease_one(x) == One
ease_in_circ(x) == RSub(One, RSqrt(RSub(One, RMul(x, x))))
ease_out_circ(x) == RSqrt(RSub(One, RPow(RSub(x, One), 2)))
ease_out_sine(x) == SinQuarter(x)
ease_in_sine(x) == RSub(One, CosQuarter(x))

\* The table read one entry too far: every id selects its successor's curve.
get_ease_func_off_by_one(ease_type, x) ==
    CASE ease_type = 0 -> ease_in_quad(x)
      [] ease_type = 1 -> ease_out_quad(x)
      [] ease_type = 2 -> ease_in_out_quad(x)
      [] ease_type = 3 -> ease_in_cubic(x)
      [] ease_type = 4 -> ease_out_cubic(x)
      [] ease_type = 5 -> ease_in_out_cubic(x)
      [] ease_type = 6 -> ease_in_quart(x)
      [] ease_type = 7 -> ease_out_quart(x)
      [] ease_type = 8 -> ease_in_out_quart(x)
      [] ease_type = 9 -> ease_in_quint(x)
      [] ease_type = 10 -> ease_out_quint(x)
      [] ease_type = 11 -> ease_in_out_quint(x)
      [] ease_type = 12 -> ease_zero(x)
      [] ease_type = 13 -> ease_one(x)
      [] ease_type = 14 -> ease_in_circ(x)
      [] ease_type = 15 -> ease_out_circ(x)
      [] ease_type = 16 -> ease_out_sine(x)
      [] ease_type = 17 -> ease_in_sine(x)
      [] OTHER -> linear(x)

\* The table indexed modulo its length: id 19 selects curve 0, id 20 curve 1.
get_ease_func_wrapped(ease_type, x) ==
    get_ease_func_off_by_one((ease_type % 19) - 1, x)

\* get_ease_func(ease_type) applied to x.
get_ease_func(ease_type, x) ==
    CASE ease_type = 0 -> linear(x)
      [] ease_type = 1 -> ease_in_quad(x)
      [] ease_type = 2 -> ease_out_quad(x)
      [] ease_type = 3 -> ease_in_out_quad(x)
      [] ease_type = 4 -> ease_in_cubic(x)
      [] ease_type = 5 -> ease_out_cubic(x)
      [] ease_type = 6 -> ease_in_out_cubic(x)
      [] ease_type = 7 -> ease_in_quart(x)
      [] ease_type = 8 -> ease_out_quart(x)
      [] ease_type = 9 -> ease_in_out_quart(x)
      [] ease_type = 10 -> ease_in_quint(x)
      [] ease_type = 11 -> ease_out_quint(x)
      [] ease_type = 12 -> ease_in_out_quint(x)
      [] ease_type = 13 -> ease_zero(x)
      [] ease_type = 14 -> ease_one(x)
      [] ease_type = 15 -> ease_in_circ(x)
      [] ease_type = 16 -> ease_out_circ(x)
      [] ease_type = 17 -> ease_out_sine(x)
      [] ease_type = 18 -> ease_in_sine(x)
      [] OTHER -> linear(x)

clamp(t, lo, hi) == IF RLt(t, lo) THEN lo ELSE IF RGt(t, hi) THEN hi ELSE t

\* The curve applied to t as given, without the clamp.
apply_ease_unclamped(ease_type, t) == get_ease_func(ease_type, t)

apply_ease(ease_type, t) == get_ease_func(ease_type, clamp(t, Zero, One))

(***************************************************************************)
(* timing.rs: find_value                                                   *)
(***************************************************************************)
\* (a - b).abs() < f64::EPSILON.  EPSILON is 2^-52; two rationals whose
\* denominators stay below 2^52 differ by less than that only when equal.
NearlyEqual(a, b) == RSub(a, b)[1] = 0

\* The blend eased by the right keyframe's curve.
find_value_blend_right_ease(event1, event2, tick, evs) ==
    IF event1 # 0 /\ event2 # 0
    THEN LET e1 == evs[event1]
             e2 == evs[event2]
             t == RDiv(RSub(tick, e1.time), RSub(e2.time, e1.time))
             ease_value == apply_ease(e2.ease_type, t)
         IN  RAdd(e1.value, RMul(RSub(e2.value, e1.value), ease_value))
    ELSE Zero

\* The blend that holds the first keyframe's value before it instead of 0.
find_value_blend_hold_first(event1, event2, tick, evs) ==
    IF event1 # 0 /\ event2 # 0
    THEN LET e1 == evs[event1]
             e2 == evs[event2]
             t == RDiv(RSub(tick, e1.time), RSub(e2.time, e1.time))
             ease_value == apply_ease(e1.ease_type, t)
         IN  RAdd(e1.value, RMul(RSub(e2.value, e1.value), ease_value))
    ELSE IF event2 # 0 THEN evs[event2].value ELSE Zero

\* if let (Some(e1), Some(e2)) = (event1, event2) { .. } else { 0.0 }
\* event1, event2: 1-based index of the keyframe, 0 for None.
find_value_blend(event1, event2, tick, evs) ==
    IF event1 # 0 /\ event2 # 0
    THEN LET e1 == evs[event1]
             e2 == evs[event2]
             t == RDiv(RSub(tick, e1.time), RSub(e2.time, e1.time))
             ease_value == apply_ease(e1.ease_type, t)
         IN  RAdd(e1.value, RMul(RSub(e2.value, e1.value), ease_value))
    ELSE Zero

\* The binary search loop; left, right and mid are the code's 0-based indices.
RECURSIVE find_value_search(_, _, _, _, _, _)
find_value_search(left, right, event1, event2, tick, evs) ==
    IF left <= right
    THEN LET mid == (left + right) \div 2
             mid_event == evs[mid + 1]
         IN  IF NearlyEqual(mid_event.time, tick)
             THEN mid_event.value
             ELSE IF RLt(mid_event.time, tick)
             THEN find_value_search(mid + 1, right, mid + 1, event2, tick, evs)
             ELSE IF mid = 0
             THEN find_value_blend(event1, mid + 1, tick, evs)
             ELSE find_value_search(left, mid - 1, event1, mid + 1, tick, evs)
    ELSE find_value_blend(event1, event2, tick, evs)

find_value(tick, evs) ==
    IF evs = <<>>
    THEN Zero
    ELSE IF Len(evs) = 1
    THEN IF RGe(tick, evs[1].time) THEN evs[1].value ELSE Zero
    ELSE IF RGt(tick, evs[Len(evs)].time)
    THEN evs[Len(evs)].value
    ELSE find_value_search(0, Len(evs) - 1, 0, 0, tick, evs)

(***************************************************************************)
(* timing.rs: recalculate_fps, speed_to_fp                                 *)
(***************************************************************************)
\* Option<f64>: None is the empty tuple, Some(x) the one-element tuple <<x>>.
None == <<>>
Some(x) == <<x>>

\* Option<f64>::unwrap_or(0.0)
unwrap_or_zero(fp) == IF fp = None THEN Zero ELSE fp[1]

\* for i in 1..speed_key_points.len(); i is the 1-based index of the keyframe
\* written, kps the list as written so far.
RECURSIVE recalculate_fps_loop(_, _, _, _)
recalculate_fps_loop(i, kps, shifts, bpm) ==
    IF i > Len(kps)
    THEN kps
    ELSE LET prev_time == kps[i - 1].time
             prev_value == kps[i - 1].value
             prev_fp == unwrap_or_zero(kps[i - 1].fp)
             curr_time == kps[i].time
             time_diff == RSub(tick_to_seconds(curr_time, shifts, bpm),
                               tick_to_seconds(prev_time, shifts, bpm))
         IN  recalculate_fps_loop(
                 i + 1,
                 [kps EXCEPT ![i].fp = Some(RAdd(prev_fp, RMul(prev_value, time_diff)))],
                 shifts, bpm)

\* The fold started from whatever the first keyframe's cache holds.
recalculate_fps_keep_first(kps, shifts, bpm) ==
    IF kps = <<>>
    THEN kps
    ELSE recalculate_fps_loop(
             2, [kps EXCEPT ![1].fp = Some(unwrap_or_zero(kps[1].fp))], shifts, bpm)

\* The list after recalculate_fps(&mut speed_key_points, ..).
recalculate_fps(kps, shifts, bpm) ==
    IF kps = <<>>
    THEN kps
    ELSE recalculate_fps_loop(2, [kps EXCEPT ![1].fp = Some(Zero)], shifts, bpm)

\* The binary search loop; left, right, mid and target_index are the code's
\* 0-based indices.  Returns target_index.
RECURSIVE speed_to_fp_search(_, _, _, _, _, _, _)
speed_to_fp_search(left, right, target_index, timer, kps, shifts, bpm) ==
    IF left <= right
    THEN LET mid == (left + right) \div 2
             mid_time == tick_to_seconds(kps[mid + 1].time, shifts, bpm)
         IN  IF RLe(mid_time, timer)
             THEN speed_to_fp_search(mid + 1, right, mid, timer, kps, shifts, bpm)
             ELSE IF mid = 0
             THEN target_index
             ELSE speed_to_fp_search(left, mid - 1, target_index, timer, kps, shifts, bpm)
    ELSE target_index

\* The extrapolation always taken from the last keyframe, without the search.
speed_to_fp_from_last(timer, kps, shifts, bpm) ==
    IF kps = <<>>
    THEN Zero
    ELSE LET current == kps[Len(kps)]
             current_time == tick_to_seconds(current.time, shifts, bpm)
             t2 == RSub(timer, current_time)
         IN  RAdd(unwrap_or_zero(current.fp), RMul(t2, current.value))

speed_to_fp(timer, kps, shifts, bpm) ==
    IF kps = <<>>
    THEN Zero
    ELSE LET right == Len(kps) - 1
             target_index == speed_to_fp_search(0, right, right, timer, kps, shifts, bpm)
             current == kps[target_index + 1]
             current_time == tick_to_seconds(current.time, shifts, bpm)
             t2 == RSub(timer, current_time)
         IN  RAdd(unwrap_or_zero(current.fp), RMul(t2, current.value))

(***************************************************************************)
(* Inputs of the tempo mapper                                              *)
(***************************************************************************)
MaxShifts == 2       \* longest bpm_shifts list
MaxShiftTick == 2    \* largest shift tick
MaxFloor == 2        \* largest shift floor_position (seconds)

BpmValues == {R(60), R(120)}
Multipliers == {R(1), R(2)}

BpmShift ==
    [time : {R(t) : t \in 0..MaxShiftTick},
     value : Multipliers,
     ease_type : {0},
     floor_position : {R(f) : f \in 0..MaxFloor}]

\* The chart format's ordering: ascending in tick and in floor_position.
ShiftsAscending(shifts) ==
    \A i \in 1..(Len(shifts) - 1) :
        /\ RLe(shifts[i].time, shifts[i + 1].time)
        /\ RLe(shifts[i].floor_position, shifts[i + 1].floor_position)

ShiftLists ==
    UNION {{s \in [1..n -> BpmShift] : ShiftsAscending(s)} : n \in 0..MaxShifts}

\* Query points in half units: before, on, between and beyond the shifts.
SecondsQueries == {Frac(k, 2) : k \in (-2)..(2 * MaxFloor + 2)}
TickQueries == {Frac(k, 2) : k \in (-2)..(2 * MaxShiftTick + 2)}

Init ==
    /\ base_bpm \in BpmValues
    /\ bpm_shifts \in ShiftLists
    /\ events = <<>>
    /\ speed_key_points = <<>>
    /\ op = "load"
    /\ arg = Zero
    /\ ret = Zero
    /\ DisplayIdle

SecondsToTick ==
    \E seconds \in SecondsQueries :
        /\ op' = "seconds_to_tick"
        /\ arg' = seconds
        /\ ret' = seconds_to_tick(seconds, bpm_shifts, base_bpm)
        /\ UNCHANGED <<base_bpm, bpm_shifts, events, speed_key_points, display>>

TickToSeconds ==
    \E tick \in TickQueries :
        /\ op' = "tick_to_seconds"
        /\ arg' = tick
        /\ ret' = tick_to_seconds(tick, bpm_shifts, base_bpm)
        /\ UNCHANGED <<base_bpm, bpm_shifts, events, speed_key_points, display>>

Next == SecondsToTick \/ TickToSeconds

Spec == Init /\ [][Next]_vars

(***************************************************************************)
(* Claims about the tempo mapper (specification Spec)                      *)
(***************************************************************************)
Tolerance == <<1, 1000000>>

RoundTripError ==
    RAbs(RSub(tick_to_seconds(ret, bpm_shifts, base_bpm), arg))

\* The first shift lies on the line the mapper uses at or before it:
\* floor_position = time * 60 / (base_bpm * value).
FirstShiftOnBaseLine ==
    bpm_shifts[1].floor_position =
        RMul(bpm_shifts[1].time, RDiv(Sixty, RMul(base_bpm, bpm_shifts[1].value)))

TicksStrictlyAscending ==
    \A i \in 1..(Len(bpm_shifts) - 1) : RLt(bpm_shifts[i].time, bpm_shifts[i + 1].time)

RatesPositive ==
    /\ RGt(base_bpm, Zero)
    /\ \A i \in 1..Len(bpm_shifts) : RGt(bpm_shifts[i].value, Zero)

\* C1 as stated: for every non-empty shift list ascending in tick and in
\* floor_position and every sampled s, tick_to_seconds(seconds_to_tick(s))
\* is within 1e-6 of s.
C1_RoundTripAnyAscending ==
    (op = "seconds_to_tick" /\ bpm_shifts # <<>>)
        => RLe(RoundTripError, Tolerance)

\* C1 amended: the round trip is within 1e-6 of s when, in addition, the rates
\* are positive, the shift ticks are strictly ascending and the first shift
\* lies on the line of its own rate through the origin.
C1_RoundTrip ==
    (/\ op = "seconds_to_tick"
     /\ bpm_shifts # <<>>
     /\ RatesPositive
     /\ TicksStrictlyAscending
     /\ FirstShiftOnBaseLine)
        => RLe(RoundTripError, Tolerance)

\* A round trip through the interpolated stretch between two shifts of a
\* well-formed list whose tempo differs from the base tempo.
C1_Witness ==
    /\ op = "seconds_to_tick"
    /\ Len(bpm_shifts) = 2
    /\ TicksStrictlyAscending
    /\ FirstShiftOnBaseLine
    /\ bpm_shifts[1].value = R(2)
    /\ RLt(bpm_shifts[1].floor_position, arg)
    /\ RLt(arg, bpm_shifts[2].floor_position)
    /\ RoundTripError = Zero

\* The mapping of section 4.2 for seconds -> tick, written from its words.
SecondsToTickReference(seconds) ==
    LET n == Len(bpm_shifts)
        secPerTick(i) == RDiv(Sixty, RMul(base_bpm, bpm_shifts[i].value))
    IN  IF n = 0
        THEN {RDiv(seconds, RDiv(Sixty, base_bpm))}
        ELSE IF RLe(seconds, bpm_shifts[1].floor_position)
        THEN {RDiv(seconds, secPerTick(1))}
        ELSE IF RGt(seconds, bpm_shifts[n].floor_position)
        THEN {RAdd(bpm_shifts[n].time,
                   RDiv(RSub(seconds, bpm_shifts[n].floor_position), secPerTick(n)))}
        ELSE {RAdd(bpm_shifts[i - 1].time,
                   RMul(RDiv(RSub(seconds, bpm_shifts[i - 1].floor_position),
                             RSub(bpm_shifts[i].floor_position,
                                  bpm_shifts[i - 1].floor_position)),
                        RSub(bpm_shifts[i].time, bpm_shifts[i - 1].time))) :
              i \in {j \in 2..n : /\ RLt(bpm_shifts[j - 1].floor_position, seconds)
                                  /\ RLe(seconds, bpm_shifts[j].floor_position)}}

\* C2: seconds_to_tick returns the reference mapping: the constant-tempo
\* quotient for an empty list, the first shift's rate at or before the first
\* floor_position, the interpolation between the bracketing shifts, and the
\* last shift's rate beyond the last floor_position.
C2_SecondsToTickReference ==
    op = "seconds_to_tick" => SecondsToTickReference(arg) = {ret}

\* The scenario of section 8: one shift {0, 1, 0} at 120 maps 1.0 s to tick 2.
C2_Witness ==
    /\ op = "seconds_to_tick"
    /\ base_bpm = R(120)
    /\ bpm_shifts = <<[time |-> Zero, value |-> One, ease_type |-> 0,
                       floor_position |-> Zero]>>
    /\ arg = One
    /\ ret = R(2)

\* The mapping of section 4.2 for tick -> seconds, written from its words.
TickToSecondsReference(tick) ==
    LET n == Len(bpm_shifts)
        secPerTick(i) == RDiv(Sixty, RMul(base_bpm, bpm_shifts[i].value))
    IN  IF n = 0
        THEN {RMul(tick, RDiv(Sixty, base_bpm))}
        ELSE IF RLe(tick, bpm_shifts[1].time)
        THEN {RMul(tick, secPerTick(1))}
        ELSE IF RGt(tick, bpm_shifts[n].time)
        THEN {RAdd(bpm_shifts[n].floor_position,
                   RMul(RSub(tick, bpm_shifts[n].time), secPerTick(n)))}
        ELSE {RAdd(bpm_shifts[i - 1].floor_position,
                   RMul(RDiv(RSub(tick, bpm_shifts[i - 1].time),
                             RSub(bpm_shifts[i].time, bpm_shifts[i - 1].time)),
                        RSub(bpm_shifts[i].floor_position,
                             bpm_shifts[i - 1].floor_position))) :
              i \in {j \in 2..n : /\ RLt(bpm_shifts[j - 1].time, tick)
                                  /\ RLe(tick, bpm_shifts[j].time)}}

\* C3: tick_to_seconds is the symmetric construction: it brackets on the
\* shifts' ticks, interpolates between the bracketing floor_positions, uses
\* the first shift's rate at or before the first tick, the last shift's
\* rate beyond the last tick, and tick * (60 / base_bpm) for an empty list.
C3_TickToSecondsReference ==
    op = "tick_to_seconds" => TickToSecondsReference(arg) = {ret}

\* A tick strictly inside the stretch between two shifts, whose seconds are
\* interpolated strictly between the two floor_positions.
C3_Witness ==
    /\ op = "tick_to_seconds"
    /\ Len(bpm_shifts) = 2
    /\ RLt(bpm_shifts[1].time, arg)
    /\ RLt(arg, bpm_shifts[2].time)
    /\ RLt(bpm_shifts[1].floor_position, ret)
    /\ RLt(ret, bpm_shifts[2].floor_position)

(***************************************************************************)
(* Inputs of the keyframe resolver                                         *)
(***************************************************************************)
MaxKeys == 3        \* longest keyframe list
MaxKeyTick == 2     \* largest keyframe tick
LastCurveId == 18   \* the last curve id get_ease_func knows

\* Curve ids: the 19 known ones and one id outside the table (u8).
CurveIds == (0..LastCurveId) \cup {255}

\* Keyframe values; none is 0, the value find_value falls back to.
KeyValues == {R(-1), R(2)}

KeyTicks == {R(t) : t \in 0..MaxKeyTick}

KeyPoint(time, value, ease_type) ==
    [time |-> time, value |-> value, ease_type |-> ease_type,
     floor_position |-> Zero, fp |-> <<>>]

\* The chart format's ordering: ascending ticks (equal ticks may repeat).
EventsAscending(times) ==
    \A i \in 1..(Len(times) - 1) : RLe(times[i], times[i + 1])

\* The curve ids of a list: linear everywhere, except that one keyframe may
\* carry any curve id.
EaseAssignments(n) ==
    {[i \in 1..n |-> IF i = at THEN id ELSE 0] : at \in 1..n, id \in CurveIds}

\* The values of a list: one value on the odd keyframes, one on the even ones.
ValueAssignments(n) ==
    {[i \in 1..n |-> IF i % 2 = 1 THEN a ELSE b] : a \in KeyValues, b \in KeyValues}

KeyPointLists ==
    UNION {{[i \in 1..n |-> KeyPoint(times[i], values[i], eases[i])] :
                times \in {ts \in [1..n -> KeyTicks] : EventsAscending(ts)},
                values \in ValueAssignments(n),
                eases \in EaseAssignments(n)} : n \in 0..MaxKeys}

KeyTickQueries == {Frac(k, 2) : k \in (-1)..(2 * MaxKeyTick + 1)}

KeyframeInit ==
    /\ base_bpm = R(120)
    /\ bpm_shifts = <<>>
    /\ events \in KeyPointLists
    /\ speed_key_points = <<>>
    /\ op = "load"
    /\ arg = Zero
    /\ ret = Zero
    /\ DisplayIdle

FindValue ==
    \E tick \in KeyTickQueries :
        /\ op' = "find_value"
        /\ arg' = tick
        /\ ret' = find_value(tick, events)
        /\ UNCHANGED <<base_bpm, bpm_shifts, events, speed_key_points, display>>

KeyframeNext == FindValue

SpecKeyframe == KeyframeInit /\ [][KeyframeNext]_vars

FloorsStrictlyAscending ==
    \A i \in 1..(Len(bpm_shifts) - 1) :
        RLt(bpm_shifts[i].floor_position, bpm_shifts[i + 1].floor_position)

\* Every sampled wall-clock value at or after the one queried maps to a tick
\* at or after the one returned.
LaterSecondsLaterTick ==
    \A later \in SecondsQueries :
        RLe(arg, later) =>
            RLe(ret, seconds_to_tick(later, bpm_shifts, base_bpm))

\* The tick the first shift's own rate reaches from the origin at the first
\* shift's floor_position is not beyond the first shift's tick.
FirstShiftNotBeforeBaseLine ==
    RLe(RDiv(bpm_shifts[1].floor_position,
             RDiv(Sixty, RMul(base_bpm, bpm_shifts[1].value))),
        bpm_shifts[1].time)

\* C20 as stated: seconds_to_tick is monotone non-decreasing for every
\* non-empty shift list strictly ascending in tick and in floor_position with
\* positive multipliers and base rate.
C20_MonotoneAnyStrictlyAscending ==
    (/\ op = "seconds_to_tick"
     /\ bpm_shifts # <<>>
     /\ TicksStrictlyAscending
     /\ FloorsStrictlyAscending
     /\ RatesPositive) => LaterSecondsLaterTick

\* C20 amended: seconds_to_tick is monotone non-decreasing on such a list
\* when, in addition, the first shift's floor_position times its rate is at
\* most the first shift's tick.
C20_Monotone ==
    (/\ op = "seconds_to_tick"
     /\ bpm_shifts # <<>>
     /\ TicksStrictlyAscending
     /\ FloorsStrictlyAscending
     /\ RatesPositive
     /\ FirstShiftNotBeforeBaseLine) => LaterSecondsLaterTick

\* A query exactly on the floor_position of a first shift that is not at the
\* origin, in a list of two shifts: the boundary and the last shift lie ahead.
C20_Witness ==
    /\ op = "seconds_to_tick"
    /\ Len(bpm_shifts) = 2
    /\ TicksStrictlyAscending
    /\ FloorsStrictlyAscending
    /\ FirstShiftNotBeforeBaseLine
    /\ RGt(bpm_shifts[1].floor_position, Zero)
    /\ arg = bpm_shifts[1].floor_position
    /\ LaterSecondsLaterTick

(***************************************************************************)
(* Claims about find_value (specification SpecKeyframe)                    *)
(***************************************************************************)
\* The query lies strictly between keyframes i and i + 1.
StrictlyInside(i) ==
    /\ i \in 1..(Len(events) - 1)
    /\ RLt(events[i].time, arg)
    /\ RLt(arg, events[i + 1].time)

\* e1.value + (e2.value - e1.value) * eased, the blend of section 4.3.
Blend(e1, e2, eased) == RAdd(e1.value, RMul(RSub(e2.value, e1.value), eased))

Progress(e1, e2, tick) == RDiv(RSub(tick, e1.time), RSub(e2.time, e1.time))

\* C4: for a non-empty list in ascending tick order, find_value returns the
\* last keyframe's value for every tick at or past the last keyframe's tick.
C4_HoldLast ==
    (/\ op = "find_value"
     /\ events # <<>>
     /\ RGe(arg, events[Len(events)].time))
        => ret = events[Len(events)].value

\* C5: for a tick strictly between two keyframe ticks, find_value returns
\* e1.value + (e2.value - e1.value) * ease(e1.ease_type, progress) for the
\* adjacent pair (e1, e2) around the tick: the left keyframe's curve.
C5_LeftCurveBlend ==
    op = "find_value" =>
        \A i \in 1..(Len(events) - 1) :
            StrictlyInside(i) =>
                ret = Blend(events[i], events[i + 1],
                            apply_ease(events[i].ease_type,
                                       Progress(events[i], events[i + 1], arg)))

\* A query inside the second segment of a three-keyframe list whose left
\* keyframe carries a curve that bends the result away from the linear blend.
C5_Witness ==
    /\ op = "find_value"
    /\ Len(events) = 3
    /\ StrictlyInside(2)
    /\ events[2].ease_type = 4
    /\ events[3].ease_type = 0
    /\ events[2].value # events[3].value
    /\ ret # Blend(events[2], events[3], Progress(events[2], events[3], arg))
    /\ ret # events[2].value

\* C6: find_value returns 0 for an empty list and for every tick strictly
\* before the first keyframe's tick.
C6_ZeroBeforeFirst ==
    (/\ op = "find_value"
     /\ \/ events = <<>>
        \/ RLt(arg, events[1].time))
        => ret = Zero

\* A query before the first of several keyframes, none of whose values is 0.
C6_Witness ==
    /\ op = "find_value"
    /\ Len(events) = 3
    /\ RLt(arg, events[1].time)
    /\ \A i \in 1..3 : events[i].value # Zero
    /\ ret = Zero

\* C7 as stated: whatever curve the predecessor carries, the values find_value
\* returns below a keyframe e follow the segment formula of (predecessor, e),
\* and that formula at progress 1 (tick = e.time) equals e.value.
C7_ContinuousAnyCurve ==
    op = "find_value" =>
        \A i \in 1..(Len(events) - 1) :
            StrictlyInside(i) =>
                /\ ret = find_value_blend(i, i + 1, arg, events)
                /\ find_value_blend(i, i + 1, events[i + 1].time, events)
                       = events[i + 1].value

\* C7 amended: the same for every keyframe e whose predecessor has a strictly
\* smaller tick and carries any curve id other than 13 (ease_zero).
C7_ContinuousUnlessEaseZero ==
    op = "find_value" =>
        \A i \in 1..(Len(events) - 1) :
            (StrictlyInside(i) /\ events[i].ease_type # 13) =>
                /\ ret = find_value_blend(i, i + 1, arg, events)
                /\ find_value_blend(i, i + 1, events[i + 1].time, events)
                       = events[i + 1].value

\* A query inside a segment eased by ease_out_circ between two different
\* values: the result differs from both keyframes' values and the segment
\* ends on the right keyframe's value.
C7_Witness ==
    /\ op = "find_value"
    /\ Len(events) = 3
    /\ StrictlyInside(1)
    /\ events[1].ease_type = 16
    /\ events[1].value # events[2].value
    /\ ret # events[1].value
    /\ ret # events[2].value
    /\ find_value_blend(1, 2, events[2].time, events) = events[2].value

(***************************************************************************)
(* Inputs of the floor position cache                                      *)
(***************************************************************************)
MaxSpeedKeys == 3     \* longest speed keyframe list
MaxSpeedBeat == 2     \* speed keyframe ticks are 0, 2, .., 2 * MaxSpeedBeat
MaxTimerHalves == 6   \* timers are -1/2, 0, 1/2, .., MaxTimerHalves / 2 seconds

Shift(time, value, floor_position) ==
    [time |-> R(time), value |-> R(value), ease_type |-> 0,
     floor_position |-> R(floor_position)]

\* Tempo maps at 120: constant tempo, and a doubling of the tempo at tick 2.
TempoMaps == {<<>>, <<Shift(0, 1, 0), Shift(2, 2, 1)>>}

SpeedValues == {R(0), R(1), R(2)}
SpeedTicks == {R(2 * k) : k \in 0..MaxSpeedBeat}

\* What the cache holds before the recalculation: nothing (a chart read from
\* its file), or a value left by an earlier computation.
StaleCaches == {None, Some(R(7))}

SpeedKeyPointLists ==
    UNION {{[i \in 1..n |-> [KeyPoint(times[i], values[i], 0) EXCEPT !.fp = stale]] :
                times \in {ts \in [1..n -> SpeedTicks] : EventsAscending(ts)},
                values \in [1..n -> SpeedValues],
                stale \in StaleCaches} : n \in 0..MaxSpeedKeys}

TimerQueries == {Frac(k, 2) : k \in (-1)..MaxTimerHalves}

SpeedInit ==
    /\ base_bpm = R(120)
    /\ bpm_shifts \in TempoMaps
    /\ events = <<>>
    /\ speed_key_points \in SpeedKeyPointLists
    /\ op = "load"
    /\ arg = Zero
    /\ ret = Zero
    /\ DisplayIdle

\* setup: initialize_canvas_states runs recalculate_fps once, before any frame.
InitializeCanvasStates ==
    /\ op = "load"
    /\ speed_key_points' = recalculate_fps(speed_key_points, bpm_shifts, base_bpm)
    /\ op' = "recalculate_fps"
    /\ UNCHANGED <<base_bpm, bpm_shifts, events, arg, ret, display>>

\* update_canvas_states: speed_to_fp at the frame's wall-clock time.
SpeedToFp ==
    \E timer \in TimerQueries :
        /\ op # "load"
        /\ op' = "speed_to_fp"
        /\ arg' = timer
        /\ ret' = speed_to_fp(timer, speed_key_points, bpm_shifts, base_bpm)
        /\ UNCHANGED <<base_bpm, bpm_shifts, events, speed_key_points, display>>

SpeedNext == InitializeCanvasStates \/ SpeedToFp

SpecSpeed == SpeedInit /\ [][SpeedNext]_vars

(***************************************************************************)
(* Claims about the floor position cache (specification SpecSpeed)         *)
(***************************************************************************)
SecondsOf(k) == tick_to_seconds(speed_key_points[k].time, bpm_shifts, base_bpm)

SpeedValuesNonNegative ==
    \A k \in 1..Len(speed_key_points) : RGe(speed_key_points[k].value, Zero)

\* C8: with all speed values >= 0, speed_to_fp is monotone non-decreasing in
\* wall-clock time: the distance returned for a time is at most the distance
\* of every later time, times before the first keyframe included.
C8_DistanceMonotone ==
    (op = "speed_to_fp" /\ SpeedValuesNonNegative) =>
        \A later \in TimerQueries :
            RLe(arg, later) =>
                RLe(ret, speed_to_fp(later, speed_key_points, bpm_shifts, base_bpm))

\* C9: after recalculate_fps the first cumulative distance is 0 and each
\* later one is its predecessor's plus the predecessor's value times the
\* wall-clock seconds between the two keyframes, whatever the cache held.
C9_CumulativeFold ==
    (op = "recalculate_fps" /\ speed_key_points # <<>>) =>
        /\ speed_key_points[1].fp = Some(Zero)
        /\ \A i \in 2..Len(speed_key_points) :
               /\ speed_key_points[i - 1].fp # None
               /\ speed_key_points[i].fp =
                      Some(RAdd(speed_key_points[i - 1].fp[1],
                                RMul(speed_key_points[i - 1].value,
                                     RSub(SecondsOf(i), SecondsOf(i - 1)))))

\* The scenario of section 8: keyframes {0, 1}, {4, 2} at constant tempo 120
\* end with cumulative distances 0 and 2.
C9_Witness ==
    /\ op = "recalculate_fps"
    /\ bpm_shifts = <<>>
    /\ base_bpm = R(120)
    /\ Len(speed_key_points) = 2
    /\ speed_key_points[1].time = R(0) /\ speed_key_points[1].value = R(1)
    /\ speed_key_points[2].time = R(4) /\ speed_key_points[2].value = R(2)
    /\ speed_key_points[1].fp = Some(Zero)
    /\ speed_key_points[2].fp = Some(R(2))

\* The keyframes whose wall-clock time is at or before the timer.
StartedKeys == {k \in 1..Len(speed_key_points) : RLe(SecondsOf(k), arg)}

LastStartedKey == CHOOSE k \in StartedKeys : \A j \in StartedKeys : j <= k

\* C10: when some keyframe's wall-clock time is at or before the timer,
\* speed_to_fp returns cachedDistance(k) + value(k) * (timer - secondsOf(k))
\* for the last such keyframe k, with no easing.
C10_ExtrapolateFromLastStarted ==
    (op = "speed_to_fp" /\ StartedKeys # {}) =>
        /\ speed_key_points[LastStartedKey].fp # None
        /\ ret = RAdd(speed_key_points[LastStartedKey].fp[1],
                      RMul(speed_key_points[LastStartedKey].value,
                           RSub(arg, SecondsOf(LastStartedKey))))

\* The scenario of section 8: keyframes {0, 1}, {4, 2} at constant tempo 120
\* give distance 4 at 3.0 s.
C10_Witness ==
    /\ op = "speed_to_fp"
    /\ bpm_shifts = <<>>
    /\ base_bpm = R(120)
    /\ Len(speed_key_points) = 2
    /\ speed_key_points[1].time = R(0) /\ speed_key_points[1].value = R(1)
    /\ speed_key_points[2].time = R(4) /\ speed_key_points[2].value = R(2)
    /\ arg = R(3)
    /\ LastStartedKey = 2
    /\ ret = R(4)

\* C21: after recalculate_fps, speed_to_fp at exactly a keyframe's own
\* wall-clock time returns that keyframe's cached cumulative distance, for
\* every keyframe; the extrapolation from the keyframe before it reaches the
\* same distance there, so the distance is continuous across the keyframe.
C21_CacheAtOwnTime ==
    op = "speed_to_fp" =>
        \A k \in 1..Len(speed_key_points) :
            SecondsOf(k) = arg =>
                /\ speed_key_points[k].fp # None
                /\ ret = speed_key_points[k].fp[1]
                /\ k > 1 =>
                       ret = RAdd(unwrap_or_zero(speed_key_points[k - 1].fp),
                                  RMul(speed_key_points[k - 1].value,
                                       RSub(arg, SecondsOf(k - 1))))

\* A query on the middle keyframe of three, under the tempo map with a
\* shift, after a positive distance has accumulated.
C21_Witness ==
    /\ op = "speed_to_fp"
    /\ bpm_shifts # <<>>
    /\ Len(speed_key_points) = 3
    /\ RLt(SecondsOf(1), SecondsOf(2)) /\ RLt(SecondsOf(2), SecondsOf(3))
    /\ arg = SecondsOf(2)
    /\ RGt(ret, Zero)
    /\ ret = speed_key_points[2].fp[1]

(***************************************************************************)
(* Inputs of the easing specification: every curve id a u8 can hold, and   *)
(* progress values below 0, inside [0, 1] and above 1.  The call is drawn  *)
(* by the initial state and made by the action.                            *)
(***************************************************************************)
MaxCurveId == 255
EaseSteps == 4

AllCurveIds == 0..MaxCurveId
EaseInputs == {Frac(k, EaseSteps) : k \in (-EaseSteps)..(2 * EaseSteps)}

EaseInit ==
    /\ base_bpm = R(120)
    /\ bpm_shifts = <<>>
    /\ events = <<>>
    /\ speed_key_points = <<>>
    /\ op = "load"
    /\ arg \in EaseInputs
    /\ ret = Zero
    /\ curve_id \in AllCurveIds
    /\ line_color = <<>>
    /\ GameIdle

\* apply_ease(curve_id, arg)
ApplyEase ==
    /\ op' = "apply_ease"
    /\ ret' = apply_ease(curve_id, arg)
    /\ UNCHANGED <<base_bpm, bpm_shifts, events, speed_key_points, arg, display>>

EaseNext == ApplyEase

SpecEase == EaseInit /\ [][EaseNext]_vars

(***************************************************************************)
(* Claims about apply_ease                                                 *)
(***************************************************************************)
ConstantCurves == {13, 14}

\* C11: for every curve id except the constant curves 13 and 14 and every
\* t, also below 0 and above 1, apply_ease evaluates the curve at t clamped
\* to [0, 1]; the value lies in [0, 1], is 0 for t <= 0 and 1 for t >= 1.
C11_ClampedRange ==
    (op = "apply_ease" /\ curve_id \notin ConstantCurves) =>
        /\ ret = get_ease_func(curve_id, clamp(arg, Zero, One))
        /\ RLe(Zero, ret) /\ RLe(ret, One)
        /\ RLe(arg, Zero) => ret = Zero
        /\ RGe(arg, One) => ret = One

C11_Witness ==
    /\ op = "apply_ease"
    /\ curve_id = 18
    /\ RLt(arg, Zero)
    /\ ret = Zero

\* C12: the curve lookup is total on 0..255, and every id above 18 selects
\* the linear curve, so apply_ease(id, t) is t clamped to [0, 1].
C12_FallbackLinear ==
    op = "apply_ease" =>
        /\ ret \in Int \X (Nat \ {0})
        /\ curve_id > LastCurveId => ret = clamp(arg, Zero, One)

C12_Witness ==
    /\ op = "apply_ease"
    /\ curve_id = LastCurveId + 1
    /\ RLt(Zero, arg) /\ RLt(arg, One)
    /\ ret = arg

(***************************************************************************)
(* chart.rs: Color                                                         *)
(***************************************************************************)
Color(r, g, b, a) == [r |-> r, g |-> g, b |-> b, a |-> a]

\* f32::round: to the nearest integer, halves away from zero.
round(x) ==
    IF x[1] >= 0 THEN (2 * x[1] + x[2]) \div (2 * x[2])
    ELSE -((2 * (-x[1]) + x[2]) \div (2 * x[2]))

\* f32::trunc: toward zero.
trunc(x) == IF x[1] >= 0 THEN x[1] \div x[2] ELSE -((-x[1]) \div x[2])

\* `as u8` on an integral f32: saturating.
as_u8(i) == IF i < 0 THEN 0 ELSE IF i > 255 THEN 255 ELSE i

\* self + (other - self) * t of one channel, before rounding.
blend_channel(self, other, t) == RAdd(R(self), RMul(R(other - self), t))

\* lerp with the channels cut off toward zero instead of rounded.
lerp_truncated(self, other, t) ==
    Color(as_u8(trunc(blend_channel(self.r, other.r, t))),
          as_u8(trunc(blend_channel(self.g, other.g, t))),
          as_u8(trunc(blend_channel(self.b, other.b, t))),
          as_u8(trunc(blend_channel(self.a, other.a, t))))

lerp(self, other, t) ==
    Color(as_u8(round(blend_channel(self.r, other.r, t))),
          as_u8(round(blend_channel(self.g, other.g, t))),
          as_u8(round(blend_channel(self.b, other.b, t))),
          as_u8(round(blend_channel(self.a, other.a, t))))

\* mix that also blends the alpha channel.
mix_blend_alpha(self, other) == lerp(self, other, Frac(other.a, 255))

mix(self, other) ==
    IF other.a = 0 THEN self
    ELSE IF other.a = 255 THEN Color(other.r, other.g, other.b, self.a)
    ELSE LET mix_ratio == Frac(other.a, 255)
         IN  Color(as_u8(round(blend_channel(self.r, other.r, mix_ratio))),
                   as_u8(round(blend_channel(self.g, other.g, mix_ratio))),
                   as_u8(round(blend_channel(self.b, other.b, mix_ratio))),
                   self.a)

(***************************************************************************)
(* game.rs: the color of a line and of a judge ring at a tick              *)
(***************************************************************************)
LineColor(time, start_color, end_color) ==
    [time |-> R(time), start_color |-> start_color, end_color |-> end_color]

RECURSIVE get_current_line_color_scan(_, _, _)
get_current_line_color_scan(segments, tick, i) ==
    IF i > Len(segments) THEN Some(segments[1].start_color)
    ELSE LET segment == segments[i]
             next_time == IF i + 1 <= Len(segments) THEN segments[i + 1].time
                          ELSE segment.time
         IN  IF RGe(tick, segment.time) /\ RLt(tick, next_time)
             THEN LET duration == RSub(next_time, segment.time)
                      progress == RDiv(RSub(tick, segment.time), duration)
                  IN  IF RGt(duration, Zero)
                      THEN Some(lerp(segment.start_color, segment.end_color,
                                     progress))
                      ELSE Some(segment.start_color)
             ELSE get_current_line_color_scan(segments, tick, i + 1)

\* From the last segment's tick on, its start color instead of its end color.
get_current_line_color_hold_start(segments, tick) ==
    IF Len(segments) = 0 THEN None
    ELSE IF Len(segments) = 1 THEN Some(segments[1].start_color)
    ELSE IF RGe(tick, segments[Len(segments)].time)
         THEN Some(segments[Len(segments)].start_color)
    ELSE get_current_line_color_scan(segments, tick, 1)

\* No color before the first segment's tick.
get_current_line_color_none_before(segments, tick) ==
    IF Len(segments) = 0 THEN None
    ELSE IF Len(segments) = 1 THEN Some(segments[1].start_color)
    ELSE IF RGe(tick, segments[Len(segments)].time)
         THEN Some(segments[Len(segments)].end_color)
    ELSE IF RLt(tick, segments[1].time) THEN None
    ELSE get_current_line_color_scan(segments, tick, 1)

\* Without the single-segment case: one segment is treated as the last one.
get_current_line_color_no_single(segments, tick) ==
    IF Len(segments) = 0 THEN None
    ELSE IF RGe(tick, segments[Len(segments)].time)
         THEN Some(segments[Len(segments)].end_color)
    ELSE get_current_line_color_scan(segments, tick, 1)

get_current_line_color(segments, tick) ==
    IF Len(segments) = 0 THEN None
    ELSE IF Len(segments) = 1 THEN Some(segments[1].start_color)
    ELSE IF RGe(tick, segments[Len(segments)].time)
         THEN Some(segments[Len(segments)].end_color)
    ELSE get_current_line_color_scan(segments, tick, 1)

RECURSIVE get_current_judge_ring_color_scan(_, _, _)
get_current_judge_ring_color_scan(segments, tick, i) ==
    IF i > Len(segments) THEN Some(segments[1].start_color)
    ELSE LET segment == segments[i]
             next_time == IF i + 1 <= Len(segments) THEN segments[i + 1].time
                          ELSE segment.time
         IN  IF RGe(tick, segment.time) /\ RLt(tick, next_time)
             THEN LET duration == RSub(next_time, segment.time)
                      progress == RDiv(RSub(tick, segment.time), duration)
                  IN  IF RGt(duration, Zero)
                      THEN Some(lerp(segment.start_color, segment.end_color,
                                     progress))
                      ELSE Some(segment.start_color)
             ELSE get_current_judge_ring_color_scan(segments, tick, i + 1)

get_current_judge_ring_color(segments, tick) ==
    IF Len(segments) = 0 THEN None
    ELSE IF Len(segments) = 1 THEN Some(segments[1].start_color)
    ELSE IF RGe(tick, segments[Len(segments)].time)
         THEN Some(segments[Len(segments)].end_color)
    ELSE get_current_judge_ring_color_scan(segments, tick, 1)

\* The line color as the base and the point color mixed onto it.
calculate_mixed_color_swapped(tick, point_color, segments) ==
    IF Len(segments) = 0 THEN point_color
    ELSE mix(get_current_line_color(segments, tick)[1], point_color)

calculate_mixed_color(tick, point_color, segments) ==
    IF Len(segments) = 0 THEN point_color
    ELSE LET current_line_color == get_current_line_color(segments, tick)
         IN  IF current_line_color # None
             THEN mix(point_color, current_line_color[1])
             ELSE point_color

(***************************************************************************)
(* Inputs of the color specification: sorted segment lists (ties allowed)  *)
(* over a few opaque, translucent and transparent colors.                  *)
(***************************************************************************)
MaxColorSegments == 3
MaxColorTick == 2

White == Color(255, 255, 255, 255)
Black == Color(0, 0, 0, 255)
Amber == Color(200, 100, 0, 128)
Clear == Color(10, 20, 30, 0)

Colors == {White, Black, Amber, Clear}
ColorPairs == {<<White, Black>>, <<Black, White>>, <<Amber, Clear>>}

\* The colors of a list: one pair on the odd segments, one on the even ones.
PairAssignments(n) ==
    {[i \in 1..n |-> IF i % 2 = 1 THEN a ELSE b] : a \in ColorPairs, b \in ColorPairs}

ColorSegmentLists ==
    UNION {
        { [i \in 1..n |-> LineColor(times[i], pairs[i][1], pairs[i][2])] :
            times \in {f \in [1..n -> 0..MaxColorTick] :
                          \A i \in 1..(n - 1) : f[i] <= f[i + 1]},
            pairs \in PairAssignments(n) }
        : n \in 0..MaxColorSegments }

ColorTickQueries == {Frac(k, 2) : k \in (-1)..(2 * MaxColorTick + 1)}

ColorInit ==
    /\ base_bpm = R(120)
    /\ bpm_shifts = <<>>
    /\ events = <<>>
    /\ speed_key_points = <<>>
    /\ op = "load"
    /\ arg = Zero
    /\ ret = Zero
    /\ curve_id = 0
    /\ line_color \in ColorSegmentLists
    /\ GameIdle

GetCurrentLineColor ==
    \E tick \in ColorTickQueries :
        /\ op' = "get_current_line_color"
        /\ arg' = tick
        /\ ret' = get_current_line_color(line_color, tick)
        /\ UNCHANGED <<base_bpm, bpm_shifts, events, speed_key_points, display>>

GetCurrentJudgeRingColor ==
    \E tick \in ColorTickQueries :
        /\ op' = "get_current_judge_ring_color"
        /\ arg' = tick
        /\ ret' = get_current_judge_ring_color(line_color, tick)
        /\ UNCHANGED <<base_bpm, bpm_shifts, events, speed_key_points, display>>

\* arg is the pair <<self, other>>.
Mix ==
    \E self \in Colors, other \in Colors :
        /\ op' = "mix"
        /\ arg' = <<self, other>>
        /\ ret' = mix(self, other)
        /\ UNCHANGED <<base_bpm, bpm_shifts, events, speed_key_points, display>>

\* arg is the pair <<tick, point_color>>.
CalculateMixedColor ==
    \E tick \in ColorTickQueries, point_color \in Colors :
        /\ op' = "calculate_mixed_color"
        /\ arg' = <<tick, point_color>>
        /\ ret' = calculate_mixed_color(tick, point_color, line_color)
        /\ UNCHANGED <<base_bpm, bpm_shifts, events, speed_key_points, display>>

ColorNext ==
    \/ GetCurrentLineColor
    \/ GetCurrentJudgeRingColor
    \/ Mix
    \/ CalculateMixedColor

SpecColor == ColorInit /\ [][ColorNext]_vars

(***************************************************************************)
(* Claims about the colors                                                 *)
(***************************************************************************)
ColorLookups == {"get_current_line_color", "get_current_judge_ring_color"}

SegmentsSorted ==
    \A i \in 1..(Len(line_color) - 1) :
        RLe(line_color[i].time, line_color[i + 1].time)

LastSegment == line_color[Len(line_color)]

\* C13: with two or more sorted segments, the line color and the judge ring
\* color at a tick at or after the last segment's tick are the last
\* segment's end color.
C13_HoldLastEndColor ==
    (/\ op \in ColorLookups
     /\ Len(line_color) >= 2
     /\ SegmentsSorted
     /\ RGe(arg, LastSegment.time)) => ret = Some(LastSegment.end_color)

\* White to black in the segment before, black to white in the last one:
\* white after it.
C13_Witness ==
    /\ op = "get_current_line_color"
    /\ Len(line_color) = 2
    /\ line_color[1].start_color = White /\ line_color[1].end_color = Black
    /\ LastSegment.start_color = Black /\ LastSegment.end_color = White
    /\ RGt(arg, LastSegment.time)
    /\ ret = Some(White)

\* The channel value a linear blend from start to end reaches at progress,
\* before rounding.
LinearChannel(start, end, progress) ==
    RAdd(R(start), RMul(RSub(R(end), R(start)), progress))

NearestTo(channel, exact) == RLe(RAbs(RSub(R(channel), exact)), Frac(1, 2))

SegmentProgress(i) ==
    RDiv(RSub(arg, line_color[i].time),
         RSub(line_color[i + 1].time, line_color[i].time))

\* C14: with two or more sorted segments and segments[i].tick <= tick <
\* segments[i+1].tick, the color is segment i's start color blended linearly
\* toward its end color with progress (tick - tick(i)) / (tick(i+1) -
\* tick(i)), every channel rounded to a nearest integer.
C14_LinearBlendInside ==
    (/\ op \in ColorLookups
     /\ Len(line_color) >= 2
     /\ SegmentsSorted) =>
        \A i \in 1..(Len(line_color) - 1) :
            (RLe(line_color[i].time, arg) /\ RLt(arg, line_color[i + 1].time)) =>
                /\ ret # None
                /\ NearestTo(ret[1].r, LinearChannel(line_color[i].start_color.r,
                        line_color[i].end_color.r, SegmentProgress(i)))
                /\ NearestTo(ret[1].g, LinearChannel(line_color[i].start_color.g,
                        line_color[i].end_color.g, SegmentProgress(i)))
                /\ NearestTo(ret[1].b, LinearChannel(line_color[i].start_color.b,
                        line_color[i].end_color.b, SegmentProgress(i)))
                /\ NearestTo(ret[1].a, LinearChannel(line_color[i].start_color.a,
                        line_color[i].end_color.a, SegmentProgress(i)))

\* Halfway through a white to black segment: mid-gray.
C14_Witness ==
    /\ op = "get_current_judge_ring_color"
    /\ Len(line_color) = 2
    /\ line_color[1].start_color = White /\ line_color[1].end_color = Black
    /\ RLt(line_color[1].time, line_color[2].time)
    /\ SegmentProgress(1) = Frac(1, 2)
    /\ ret = Some(Color(128, 128, 128, 255))

\* C15: no color for an empty segment list; with exactly one segment its
\* start color at every tick.
C15_EmptyAndSingle ==
    op \in ColorLookups =>
        /\ Len(line_color) = 0 => ret = None
        /\ Len(line_color) = 1 => ret = Some(line_color[1].start_color)

C15_Witness ==
    /\ op = "get_current_line_color"
    /\ Len(line_color) = 1
    /\ line_color[1].start_color # line_color[1].end_color
    /\ RGt(arg, line_color[1].time)
    /\ ret = Some(line_color[1].start_color)

\* C23: with two or more sorted segments and a tick strictly before the first
\* segment's tick, the line color and the judge ring color are the first
\* segment's start color: not none, and not a blend.
C23_FirstStartColorBefore ==
    (/\ op \in ColorLookups
     /\ Len(line_color) >= 2
     /\ SegmentsSorted
     /\ RLt(arg, line_color[1].time)) => ret = Some(line_color[1].start_color)

\* A query before a first segment that starts after tick 0 and changes color.
C23_Witness ==
    /\ op = "get_current_judge_ring_color"
    /\ Len(line_color) >= 2
    /\ RGt(line_color[1].time, Zero)
    /\ RLt(arg, line_color[1].time)
    /\ line_color[1].start_color # line_color[1].end_color
    /\ ret = Some(line_color[1].start_color)

\* C16: mix keeps the base color's alpha; a fully transparent other color
\* leaves the base unchanged, a fully opaque one replaces the RGB channels,
\* and any other alpha blends every RGB channel from the base toward the
\* other color by the weight other.a / 255, rounded to a nearest integer.
C16_MixByOtherAlpha ==
    op = "mix" =>
        LET self == arg[1]
            other == arg[2]
            weight == Frac(other.a, 255)
        IN  /\ ret.a = self.a
            /\ other.a = 0 => ret = self
            /\ other.a = 255 =>
                   ret.r = other.r /\ ret.g = other.g /\ ret.b = other.b
            /\ other.a \notin {0, 255} =>
                   /\ NearestTo(ret.r, LinearChannel(self.r, other.r, weight))
                   /\ NearestTo(ret.g, LinearChannel(self.g, other.g, weight))
                   /\ NearestTo(ret.b, LinearChannel(self.b, other.b, weight))

\* A translucent color mixed onto a transparent one with other channels.
C16_Witness ==
    /\ op = "mix"
    /\ arg = <<Clear, Amber>>
    /\ ret = Color(105, 60, 15, 0)

\* C17: calculate_mixed_color returns the base color for an empty segment
\* list and otherwise the base color mixed with the line color at the tick.
C17_MixWithLineColor ==
    op = "calculate_mixed_color" =>
        LET tick == arg[1]
            point_color == arg[2]
        IN  IF Len(line_color) = 0 THEN ret = point_color
            ELSE ret = mix(point_color,
                           get_current_line_color(line_color, tick)[1])

C17_Witness ==
    /\ op = "calculate_mixed_color"
    /\ Len(line_color) >= 2
    /\ arg[2] = White
    /\ get_current_line_color(line_color, arg[1]) = Some(Amber)
    /\ ret = Color(227, 177, 127, 255)

(***************************************************************************)
(* game.rs: GameState, initialize_canvas_states, update_canvas_states;     *)
(* rendering.rs: update_game_time; main.rs: keyboard_input.                *)
(* gs is the GameState the function receives.                              *)
(***************************************************************************)
\* (215.0 / 32.0 + 10.0) * (10.0 / 129.0)
DefaultSpeed == RMul(RAdd(Frac(215, 32), R(10)), Frac(10, 129))

CanvasState(x, fp) == [x |-> x, fp |-> fp]

\* GameState::new
new(chart) ==
    [chart |-> chart,
     current_time |-> Zero,
     is_playing |-> FALSE,
     speed |-> DefaultSpeed,
     revelation_size |-> One,
     canvas_states |-> [i \in 1..Len(chart.canvas_moves) |-> CanvasState(Zero, Zero)]]

current_tick(gs) ==
    seconds_to_tick(gs.current_time, gs.chart.bpm_shifts, gs.chart.bpm)

camera_scale(gs) ==
    RMul(find_value(current_tick(gs), gs.chart.camera_move.scale_key_points),
         gs.revelation_size)

camera_move_x(gs) ==
    find_value(current_tick(gs), gs.chart.camera_move.x_position_key_points)

\* recalculate_fps skipped for the first canvas move.
initialize_canvas_states_skip_first(gs) ==
    [gs EXCEPT !.chart.canvas_moves =
        [i \in 1..Len(gs.chart.canvas_moves) |->
            IF i = 1 THEN gs.chart.canvas_moves[i]
            ELSE [gs.chart.canvas_moves[i] EXCEPT !.speed_key_points =
                     recalculate_fps(gs.chart.canvas_moves[i].speed_key_points,
                                     gs.chart.bpm_shifts, gs.chart.bpm)]]]

initialize_canvas_states(gs) ==
    [gs EXCEPT !.chart.canvas_moves =
        [i \in 1..Len(gs.chart.canvas_moves) |->
            [gs.chart.canvas_moves[i] EXCEPT !.speed_key_points =
                recalculate_fps(gs.chart.canvas_moves[i].speed_key_points,
                                gs.chart.bpm_shifts, gs.chart.bpm)]]]

\* The body of the loop of update_canvas_states for canvas move i (1-based).
canvas_state_at(gs, i) ==
    LET tick == current_tick(gs)
        timer == gs.current_time
        scale == camera_scale(gs)
        camera_x == camera_move_x(gs)
        canvas_move == gs.chart.canvas_moves[i]
        x_value == find_value(tick, canvas_move.x_position_key_points)
        fp == speed_to_fp(timer, canvas_move.speed_key_points,
                          gs.chart.bpm_shifts, gs.chart.bpm)
    IN  CanvasState(RMul(RSub(x_value, camera_x), scale), fp)

\* The canvas states refreshed only while the chart is playing.
update_canvas_states_while_playing(gs) ==
    IF gs.is_playing
    THEN [gs EXCEPT !.canvas_states =
             [i \in 1..Len(gs.canvas_states) |->
                 IF i <= Len(gs.chart.canvas_moves) THEN canvas_state_at(gs, i)
                 ELSE gs.canvas_states[i]]]
    ELSE gs

update_canvas_states(gs) ==
    [gs EXCEPT !.canvas_states =
        [i \in 1..Len(gs.canvas_states) |->
            IF i <= Len(gs.chart.canvas_moves) THEN canvas_state_at(gs, i)
            ELSE gs.canvas_states[i]]]

\* rendering.rs: update_game_time with time.delta_seconds_f64() = delta.
update_game_time(delta, gs) ==
    IF gs.is_playing
    THEN [gs EXCEPT !.current_time = RAdd(gs.current_time, delta)]
    ELSE gs

SeekStep == Frac(1, 10)
SpeedFactor == Frac(11, 10)

\* f64::max
max(a, b) == IF RGe(a, b) THEN a ELSE b

\* main.rs: keyboard_input; keyboard is the set of keys that are down (and
\* were just pressed) in this frame.
keyboard_input(keyboard, gs) ==
    LET toggled == IF "Space" \in keyboard
                   THEN [gs EXCEPT !.is_playing = ~gs.is_playing] ELSE gs
        reset == IF "KeyR" \in keyboard
                 THEN [toggled EXCEPT !.current_time = Zero] ELSE toggled
        back == IF "ArrowLeft" \in keyboard
                THEN [reset EXCEPT !.current_time =
                         max(RSub(reset.current_time, SeekStep), Zero)]
                ELSE reset
        forth == IF "ArrowRight" \in keyboard
                 THEN [back EXCEPT !.current_time = RAdd(back.current_time, SeekStep)]
                 ELSE back
        faster == IF "ArrowUp" \in keyboard
                  THEN [forth EXCEPT !.speed = RMul(forth.speed, SpeedFactor)]
                  ELSE forth
    IN  IF "ArrowDown" \in keyboard
        THEN [faster EXCEPT !.speed = RDiv(faster.speed, SpeedFactor)]
        ELSE faster

(***************************************************************************)
(* rendering.rs: the note loop of update_rendering.  Drawing leaves no     *)
(* state behind and is not modelled.                                       *)
(***************************************************************************)
NoteState(is_hit, is_play_hit) == [is_hit |-> is_hit, is_play_hit |-> is_play_hit]

\* NoteState::default
NoteStateDefault == NoteState(FALSE, FALSE)

\* The binary search of find_line_points_for_time on a non-empty list; left,
\* right, mid and target_index are the code's 0-based indices.
RECURSIVE find_line_points_search(_, _, _, _, _)
find_line_points_search(left, right, target_index, points, time) ==
    IF left <= right
    THEN LET mid == (left + right) \div 2
         IN  IF RLe(points[mid + 1].time, time)
             THEN find_line_points_search(mid + 1, right, mid, points, time)
             ELSE IF mid = 0
             THEN target_index
             ELSE find_line_points_search(left, mid - 1, target_index, points, time)
    ELSE target_index

\* The point of the pair find_line_points_for_time returns.
find_line_points_for_time(points, time) ==
    LET right == Len(points) - 1
    IN  points[find_line_points_search(0, right, right, points, time) + 1]

\* The resource re-created when its length differs from the number of lines.
init_note_states(gs, states) ==
    IF Len(states) # Len(gs.chart.lines)
    THEN [l \in 1..Len(gs.chart.lines) |->
             [n \in 1..Len(gs.chart.lines[l].notes) |-> NoteStateDefault]]
    ELSE states

\* Whether the loop body for a note ends at one of its two `continue`s before
\* the hit state is touched.
note_skipped(gs, tick, line, note, note_state) ==
    \/ note_state.is_hit /\ RGt(tick, note.time) /\ note.note_type # 2
    \/ find_line_points_for_time(line.line_points, note.time).canvas_index
           >= Len(gs.canvas_states)

\* Whether the loop body for a note sets is_hit and increments the counter.
note_hits(gs, tick, line, note, note_state) ==
    /\ ~note_skipped(gs, tick, line, note, note_state)
    /\ ~note_state.is_hit
    /\ RGe(tick, note.time)

\* The loop body without the reset of a note the tick is before.
note_state_after_no_reset(gs, tick, line, note, note_state) ==
    IF note_hits(gs, tick, line, note, note_state)
    THEN NoteState(TRUE, TRUE)
    ELSE note_state

\* The note's state after the loop body for it.
note_state_after(gs, tick, line, note, note_state) ==
    IF note_skipped(gs, tick, line, note, note_state)
    THEN note_state
    ELSE IF RLt(tick, note.time)
    THEN NoteState(FALSE, FALSE)
    ELSE IF note_hits(gs, tick, line, note, note_state)
    THEN NoteState(TRUE, TRUE)
    ELSE note_state

\* The pairs <<line, note>> (1-based) the frame at `tick` changes to hit.
notes_hit(gs, tick, states) ==
    {ln \in UNION {{<<l, n>> : n \in 1..Len(states[l])} : l \in 1..Len(states)} :
        note_hits(gs, tick, gs.chart.lines[ln[1]], gs.chart.lines[ln[1]].notes[ln[2]],
                  states[ln[1]][ln[2]])}

\* The note loop of a frame at `tick`, over the note states the frame starts
\* with.
note_loop(gs, tick, states, count) ==
    [game_state |-> gs,
     note_states |->
        [l \in 1..Len(states) |->
            [n \in 1..Len(states[l]) |->
                note_state_after(gs, tick, gs.chart.lines[l],
                                 gs.chart.lines[l].notes[n], states[l][n])]],
     hit_count |-> count + Cardinality(notes_hit(gs, tick, states))]

\* update_rendering from the tick on.
render_notes(gs, states, count) ==
    note_loop(gs, current_tick(gs), init_note_states(gs, states), count)

\* update_rendering: the game state, the note states and the hit counter
\* after the frame.
update_rendering(gs, states, count) ==
    render_notes(update_canvas_states(gs), states, count)

(***************************************************************************)
(* Inputs of the game specification.  At 1200 beats per minute a tick      *)
(* lasts 1/20 s, so the keyframes of the first ticks are passed within a   *)
(* few seek steps.  Time is capped at MaxGameTicks twentieths of a second. *)
(***************************************************************************)
MaxGameTicks == 3

GameTimeCap == Frac(MaxGameTicks, 20)

\* Constant tempo, and a doubling of the tempo at tick 1.
GameTempoMaps ==
    {<<>>,
     <<[time |-> R(0), value |-> R(1), ease_type |-> 0, floor_position |-> Zero],
       [time |-> R(1), value |-> R(2), ease_type |-> 0,
        floor_position |-> Frac(1, 20)]>>}

CameraMove ==
    [scale_key_points |-> <<KeyPoint(R(0), R(1), 0), KeyPoint(R(2), R(2), 0)>>,
     x_position_key_points |-> <<KeyPoint(R(1), R(-1), 0)>>]

\* A canvas move whose speed keyframes carry `stale` in their caches.
CanvasMove(x_keys, speed_keys, stale) ==
    [x_position_key_points |-> x_keys,
     speed_key_points |->
        [i \in 1..Len(speed_keys) |-> [speed_keys[i] EXCEPT !.fp = stale]]]

FirstCanvas(stale) ==
    CanvasMove(<<KeyPoint(R(0), R(-1), 0), KeyPoint(R(2), R(2), 1)>>,
               <<KeyPoint(R(0), R(1), 0), KeyPoint(R(1), R(2), 0)>>, stale)

SecondCanvas(stale) ==
    CanvasMove(<<>>, <<KeyPoint(R(1), R(2), 0), KeyPoint(R(2), R(0), 0)>>, stale)

CanvasMoveLists ==
    {<<FirstCanvas(stale)>> : stale \in StaleCaches}
        \cup {<<FirstCanvas(stale), SecondCanvas(stale)>> : stale \in StaleCaches}

\* The largest value of the hit counter explored.
MaxHitCount == 3

Chart(shifts, canvas_moves) ==
    [bpm |-> R(1200), bpm_shifts |-> shifts, lines |-> <<>>,
     camera_move |-> CameraMove, canvas_moves |-> canvas_moves]

Charts ==
    {Chart(shifts, canvas_moves) :
        shifts \in GameTempoMaps, canvas_moves \in CanvasMoveLists}

Keys == {"Space", "KeyR", "ArrowLeft", "ArrowRight", "ArrowUp", "ArrowDown"}
KeySets == {keyboard \in SUBSET Keys : Cardinality(keyboard) <= 2}

Deltas == {Frac(1, 20), Frac(1, 10)}

SpeedSettings == {DefaultSpeed, RMul(DefaultSpeed, SpeedFactor)}

\* The part of the state space explored: time and speed stay in their caps.
InCap(gs) ==
    /\ RLe(gs.current_time, GameTimeCap)
    /\ gs.speed \in SpeedSettings

\* setup, up to GameState::new.
GameInit ==
    /\ base_bpm = R(1200)
    /\ bpm_shifts = <<>>
    /\ events = <<>>
    /\ speed_key_points = <<>>
    /\ op = "load"
    /\ arg = Zero
    /\ ret = Zero
    /\ curve_id = 0
    /\ line_color = <<>>
    /\ game_state \in {new(chart) : chart \in Charts}
    /\ frames = {}
    /\ note_states = <<>>
    /\ hit_count = 0

\* setup, from initialize_canvas_states on: the Startup schedule.
Setup ==
    /\ op = "load"
    /\ game_state' = initialize_canvas_states(game_state)
    /\ op' = "setup"
    /\ UNCHANGED <<base_bpm, bpm_shifts, events, speed_key_points, arg, ret,
                   curve_id, line_color, frames, note_states, hit_count>>

\* The Update schedule: keyboard_input is not ordered against the chain
\* update_game_time, update_rendering.
KeyboardInput ==
    \E keyboard \in KeySets :
        /\ op \in {"setup", "keyboard_input", "update_rendering"}
        /\ InCap(keyboard_input(keyboard, game_state))
        /\ game_state' = keyboard_input(keyboard, game_state)
        /\ op' = "keyboard_input"
        /\ UNCHANGED <<base_bpm, bpm_shifts, events, speed_key_points, arg, ret,
                       curve_id, line_color, frames, note_states, hit_count>>

UpdateGameTime ==
    \E delta \in Deltas :
        /\ op \in {"setup", "keyboard_input", "update_rendering"}
        /\ InCap(update_game_time(delta, game_state))
        /\ game_state' = update_game_time(delta, game_state)
        /\ op' = "update_game_time"
        /\ UNCHANGED <<base_bpm, bpm_shifts, events, speed_key_points, arg, ret,
                       curve_id, line_color, frames, note_states, hit_count>>

\* What a frame computes: the locals tick, scale and camera_x and the canvas
\* states.
Frame(gs) ==
    [tick |-> current_tick(gs), scale |-> camera_scale(gs),
     camera_x |-> camera_move_x(gs), canvas_states |-> gs.canvas_states]

\* update_rendering; arg is the time of the frame, ret what it computed.
\* frames keeps the first frame of every time, and whether a later frame ran
\* at the same time.  The hit counter is explored up to MaxHitCount.
UpdateRendering ==
    /\ op = "update_game_time"
    /\ \E after \in {update_rendering(game_state, note_states, hit_count)} :
          /\ after.hit_count <= MaxHitCount
          /\ game_state' = after.game_state
          /\ note_states' = after.note_states
          /\ hit_count' = after.hit_count
    /\ op' = "update_rendering"
    /\ arg' = game_state.current_time
    /\ ret' = Frame(game_state')
    /\ frames' =
          IF \E f \in frames : f.time = game_state.current_time
          THEN {IF f.time = game_state.current_time
                THEN [f EXCEPT !.again = TRUE] ELSE f : f \in frames}
          ELSE frames \cup {[time |-> game_state.current_time,
                             frame |-> Frame(game_state'), again |-> FALSE]}
    /\ UNCHANGED <<base_bpm, bpm_shifts, events, speed_key_points,
                   curve_id, line_color>>

GameNext == Setup \/ KeyboardInput \/ UpdateGameTime \/ UpdateRendering

SpecGame == GameInit /\ [][GameNext]_vars

(***************************************************************************)
(* Claims about the game state                                             *)
(***************************************************************************)
\* C18: after any sequence of play, pause, reset and seek, the tick, the
\* camera values and every canvas's x and fp a frame computes depend only on
\* the current time: a frame at a time at which a frame ran before, however
\* that time was reached, computes what the first one computed.
C18_ReplayDeterminism ==
    op = "update_rendering" =>
        /\ \E f \in frames : f.time = arg
        /\ \A f \in frames : f.time = arg => f.frame = ret

\* A frame at a time after 0 that was rendered before, after a frame at a
\* later time: the time was left and reached again by a seek back or a reset
\* followed by playing or seeking forward.
C18_Witness ==
    /\ op = "update_rendering"
    /\ RGt(arg, Zero)
    /\ \E f \in frames : f.time = arg /\ f.again /\ f.frame = ret
    /\ \E later \in frames : RGt(later.time, arg) /\ later.frame # ret
    /\ \E i \in 1..Len(ret.canvas_states) : ret.canvas_states[i].fp # Zero

SpeedCaches(gs) ==
    [i \in 1..Len(gs.chart.canvas_moves) |->
        [j \in 1..Len(gs.chart.canvas_moves[i].speed_key_points) |->
            gs.chart.canvas_moves[i].speed_key_points[j].fp]]

CachesPopulated ==
    \A i \in 1..Len(SpeedCaches(game_state)) :
        \A j \in 1..Len(SpeedCaches(game_state)[i]) :
            SpeedCaches(game_state)[i][j] # None

\* C19: the setup recalculates the caches of every canvas move before any
\* frame; from then on every cache is populated, and no later step (keyboard
\* input, time advance, frame) changes a cache.
C19_CachesWrittenAtSetupOnly ==
    /\ [](op # "load" => CachesPopulated)
    /\ [][op # "load" => SpeedCaches(game_state') = SpeedCaches(game_state)]_vars

\* A frame after time 0 over two canvas moves whose caches hold the
\* recalculated distances.
C19_Witness ==
    /\ op = "update_rendering"
    /\ RGt(arg, Zero)
    /\ Len(game_state.chart.canvas_moves) = 2
    /\ CachesPopulated
    /\ SpeedCaches(game_state)[1][2] = Some(Frac(1, 20))

(***************************************************************************)
(* Inputs of the note specification: charts with lines, rendered with one  *)
(* or two canvases.  Of a line point and a note only the fields the hit    *)
(* state depends on are kept.  Every line with notes has a point: without  *)
(* one find_line_points_for_time indexes an empty vector and the frame     *)
(* panics.                                                                 *)
(***************************************************************************)
LinePoint(time, canvas_index) == [time |-> time, canvas_index |-> canvas_index]

Note(note_type, time) == [note_type |-> note_type, time |-> time]

Line(line_points, notes) == [line_points |-> line_points, notes |-> notes]

Tap == 0
Hold == 2

\* A line on the first canvas with a tap at tick 1 and a hold at tick 2.
PlainLine == Line(<<LinePoint(R(0), 0)>>, <<Note(Tap, R(1)), Note(Hold, R(2))>>)

\* A line that moves to the second canvas at tick 2, with a tap before and a
\* tap at the move.
MovingLine ==
    Line(<<LinePoint(R(0), 0), LinePoint(R(2), 1)>>,
         <<Note(Tap, R(1)), Note(Tap, R(2))>>)

\* A line whose only point comes after its note.
LateLine == Line(<<LinePoint(R(2), 0)>>, <<Note(Tap, R(1))>>)

\* A line without notes.
EmptyLine == Line(<<>>, <<>>)

NoteLineLists ==
    {<<PlainLine>>, <<MovingLine>>, <<LateLine, EmptyLine>>, <<PlainLine, MovingLine>>}

NoteCharts ==
    {[Chart(<<>>, canvas_moves) EXCEPT !.lines = lines] :
        canvas_moves \in {<<FirstCanvas(None)>>,
                          <<FirstCanvas(None), SecondCanvas(None)>>},
        lines \in NoteLineLists}

NotesInit ==
    /\ base_bpm = R(1200)
    /\ bpm_shifts = <<>>
    /\ events = <<>>
    /\ speed_key_points = <<>>
    /\ op = "load"
    /\ arg = Zero
    /\ ret = Zero
    /\ curve_id = 0
    /\ line_color = <<>>
    /\ game_state \in {new(chart) : chart \in NoteCharts}
    /\ frames = {}
    /\ note_states = <<>>
    /\ hit_count = 0

\* update_rendering, without the history of frames that the game
\* specification keeps.
UpdateRenderingNotes ==
    /\ op = "update_game_time"
    /\ \E after \in {update_rendering(game_state, note_states, hit_count)} :
          /\ after.hit_count <= MaxHitCount
          /\ game_state' = after.game_state
          /\ note_states' = after.note_states
          /\ hit_count' = after.hit_count
    /\ op' = "update_rendering"
    /\ arg' = game_state.current_time
    /\ ret' = Frame(game_state')
    /\ UNCHANGED <<base_bpm, bpm_shifts, events, speed_key_points,
                   curve_id, line_color, frames>>

NotesNext == Setup \/ KeyboardInput \/ UpdateGameTime \/ UpdateRenderingNotes

SpecNotes == NotesInit /\ [][NotesNext]_vars

(***************************************************************************)
(* Claims about the note hit states                                        *)
(***************************************************************************)
\* The notes of the chart, as pairs <<line, note>>.
ChartNotes ==
    UNION {{<<l, n>> : n \in 1..Len(game_state.chart.lines[l].notes)} :
              l \in 1..Len(game_state.chart.lines)}

NoteAt(ln) == game_state.chart.lines[ln[1]].notes[ln[2]]

ValidCanvas(point) == point.canvas_index < Len(game_state.canvas_states)

\* Some point of the note's line is on an existing canvas.
LineHasValidPoint(ln) ==
    \E i \in 1..Len(game_state.chart.lines[ln[1]].line_points) :
        ValidCanvas(game_state.chart.lines[ln[1]].line_points[i])

\* The point of the line in force at the note's time: the last point not
\* after it, or the line's last point when the note is before every point.
PointInForce(ln) ==
    LET points == game_state.chart.lines[ln[1]].line_points
        before == {i \in 1..Len(points) : RLe(points[i].time, NoteAt(ln).time)}
    IN  IF before = {} THEN points[Len(points)]
        ELSE points[CHOOSE i \in before : \A j \in before : j <= i]

\* Whether a note counts as hit in a list of note states; before the first
\* frame there are no note states and no note is hit.
IsHit(states, ln) ==
    /\ Len(states) = Len(game_state.chart.lines)
    /\ states[ln[1]][ln[2]].is_hit

\* At the end of a frame, each of the notes `covered` is hit exactly when the
\* frame's tick has reached its time.
HitStateMatchesTick(covered) ==
    op = "update_rendering" =>
        \A ln \in covered : IsHit(note_states, ln) <=> RGe(ret.tick, NoteAt(ln).time)

\* A step adds to the hit counter the number of notes it changes from not
\* hit to hit.
HitCounted ==
    hit_count' = hit_count
        + Cardinality({ln \in ChartNotes : ~IsHit(note_states, ln) /\ IsHit(note_states', ln)})

\* C22, as stated: at the end of every frame each note whose line has a point
\* with a valid canvas index is hit exactly when the frame's tick >= its
\* time, and the counter grows by one for each change from not hit to hit.
C22_HitStateOfLinesWithValidPoint ==
    /\ [](HitStateMatchesTick({ln \in ChartNotes : LineHasValidPoint(ln)}))
    /\ [][HitCounted]_vars

\* C22: at the end of every frame each note whose line point in force at the
\* note's time has a valid canvas index is hit exactly when the frame's tick
\* >= its time, and the counter grows by one for each change of a note from
\* not hit to hit.
C22_HitStateMatchesTick ==
    /\ [](HitStateMatchesTick({ln \in ChartNotes : ValidCanvas(PointInForce(ln))}))
    /\ [][HitCounted]_vars

\* A frame before the tap of the plain line that was hit twice, forward and
\* again after a seek back past it: it is not hit and the counter stands at
\* two or more.
C22_Witness ==
    /\ op = "update_rendering"
    /\ game_state.chart.lines = <<PlainLine>>
    /\ RLt(ret.tick, R(1))
    /\ ~IsHit(note_states, <<1, 1>>)
    /\ hit_count >= 2
====
